---- MODULE Spec2Model ----
(***************************************************************************)
(* Native input layer of SF6-combo-master (src-tauri/src/input).           *)
(*                                                                         *)
(* mod.rs      : the tauri commands input_start / input_stop, the polling  *)
(*               worker thread (InputWorker) and the runtime state         *)
(*               (Mutex<Option<InputWorker>>).                             *)
(* platform.rs : the two backends (XInput, PS4 HID), their decoders and    *)
(*               the direction encoder.                                    *)
(*                                                                         *)
(* Callers are the threads on which the commands run; every statement of   *)
(* a command that touches shared state is one action.  The worker thread   *)
(* is one action per statement of its closure.  The devices (XInput slot   *)
(* return codes, HID reads, detection) are the environment: each call      *)
(* draws its outcome from a small set.                                     *)
(*                                                                         *)
(* Timestamps (now_ms) are wall-clock readings that no decision of the     *)
(* code depends on; samples and payloads are modelled without them.        *)
(***************************************************************************)
EXTENDS Integers, Sequences, FiniteSets, TLC

(***************************************************************************)
(* Bounds of the model.                                                    *)
(***************************************************************************)
\* how many worker threads may be spawned in one behaviour
MaxWorkers == 2
\* how many frames one worker may emit
MaxFrames == 2

\* the threads that invoke the commands (two, so that calls interleave)
Callers == {"c1", "c2"}
\* the worker threads that may exist at one time (two, so that a second live
\* thread can be told from the first); the identity of a thread that has
\* exited and whose handle is gone is given to the next thread spawned
WorkerIds == {1, 2}

\* the mutex is free
None == "None"
\* Option<InputWorker>: None, or Some handle of the worker thread t
NoWorker == << >>
Handle(t) == <<t>>
thread_of(handle) == handle[1]

(***************************************************************************)
(* Bit operations on unsigned integers (u8 / u16).                         *)
(***************************************************************************)
RECURSIVE BitAnd(_, _)
BitAnd(a, b) ==
    IF a = 0 \/ b = 0 THEN 0
    ELSE (IF a % 2 = 1 /\ b % 2 = 1 THEN 1 ELSE 0) + 2 * BitAnd(a \div 2, b \div 2)

RECURSIVE BitOr(_, _)
BitOr(a, b) ==
    IF a = 0 THEN b
    ELSE IF b = 0 THEN a
    ELSE (IF a % 2 = 1 \/ b % 2 = 1 THEN 1 ELSE 0) + 2 * BitOr(a \div 2, b \div 2)

RECURSIVE Shl1(_)
Shl1(n) == IF n = 0 THEN 1 ELSE 2 * Shl1(n - 1)

\* `if cond { down_mask |= bit }`
OrIf(mask, cond, bit) == IF cond THEN BitOr(mask, bit) ELSE mask

(***************************************************************************)
(* mod.rs: constants, InputSample, frame payload.                          *)
(***************************************************************************)
BUTTON_ORDER == <<"LP", "MP", "HP", "LK", "MK", "HK", "DI", "PARry">>

InputSample(direction, down_mask) ==
    [direction |-> direction, down_mask |-> down_mask]

\* mutant of neutral: the neutral sample carries no direction code
neutral_without_direction == InputSample(0, 0)

neutral == InputSample(5, 0)

RECURSIVE mask_to_buttons_from(_, _)
mask_to_buttons_from(index, mask) ==
    IF index >= Len(BUTTON_ORDER) THEN << >>
    ELSE LET bit == Shl1(index)
         IN  (IF BitAnd(mask, bit) = bit THEN <<BUTTON_ORDER[index + 1]>> ELSE << >>)
             \o mask_to_buttons_from(index + 1, mask)

mask_to_buttons(mask) == mask_to_buttons_from(0, mask)

InputFramePayload(frame, sample) ==
    [frame     |-> frame,
     direction |-> sample.direction,
     down      |-> mask_to_buttons(sample.down_mask)]

(***************************************************************************)
(* The physical-button bits of the 16-bit mask that platform.rs imports    *)
(* from mod.rs (BUTTON_SOUTH_MASK ... BUTTON_DPAD_RIGHT_MASK).  mod.rs     *)
(* does not define them; sixteen names share the sixteen bits of a u16,    *)
(* taken here in the order of the decoders' statements.                    *)
(***************************************************************************)
BUTTON_SOUTH_MASK == Shl1(0)
BUTTON_EAST_MASK == Shl1(1)
BUTTON_WEST_MASK == Shl1(2)
BUTTON_NORTH_MASK == Shl1(3)
BUTTON_L1_MASK == Shl1(4)
BUTTON_R1_MASK == Shl1(5)
BUTTON_L2_MASK == Shl1(6)
BUTTON_R2_MASK == Shl1(7)
BUTTON_SELECT_MASK == Shl1(8)
BUTTON_START_MASK == Shl1(9)
BUTTON_L3_MASK == Shl1(10)
BUTTON_R3_MASK == Shl1(11)
BUTTON_DPAD_UP_MASK == Shl1(12)
BUTTON_DPAD_DOWN_MASK == Shl1(13)
BUTTON_DPAD_LEFT_MASK == Shl1(14)
BUTTON_DPAD_RIGHT_MASK == Shl1(15)

(***************************************************************************)
(* platform.rs: constants.                                                 *)
(***************************************************************************)
ERROR_DEVICE_NOT_CONNECTED == 1167
XINPUT_TRIGGER_THRESHOLD == 140
XINPUT_AXIS_DEADZONE == 16384
TRIGGER_BYTE_THRESHOLD == 141
ANALOG_CENTER == 127
ANALOG_AXIS_DEADZONE == 58
\* mod.rs: FRAME_DURATION, in nanoseconds
FRAME_DURATION == 16666667
\* windows_sys: XUSER_MAX_COUNT and the wButtons bits of XINPUT_GAMEPAD
XUSER_MAX_COUNT == 4
XINPUT_GAMEPAD_DPAD_UP == 1
XINPUT_GAMEPAD_DPAD_DOWN == 2
XINPUT_GAMEPAD_DPAD_LEFT == 4
XINPUT_GAMEPAD_DPAD_RIGHT == 8
XINPUT_GAMEPAD_START == 16
XINPUT_GAMEPAD_BACK == 32
XINPUT_GAMEPAD_LEFT_THUMB == 64
XINPUT_GAMEPAD_RIGHT_THUMB == 128
XINPUT_GAMEPAD_LEFT_SHOULDER == 256
XINPUT_GAMEPAD_RIGHT_SHOULDER == 512
XINPUT_GAMEPAD_A == 4096
XINPUT_GAMEPAD_B == 8192
XINPUT_GAMEPAD_X == 16384
XINPUT_GAMEPAD_Y == 32768

(***************************************************************************)
(* platform.rs: the direction encoder and the two decoders.                *)
(***************************************************************************)
\* mutant of to_direction: the rows of up and down are exchanged
to_direction_upside_down(horizontal, vertical) ==
    CASE horizontal = 0  /\ vertical = 0  -> 5
      [] horizontal = 1  /\ vertical = 0  -> 6
      [] horizontal = -1 /\ vertical = 0  -> 4
      [] horizontal = 0  /\ vertical = 1  -> 2
      [] horizontal = 0  /\ vertical = -1 -> 8
      [] horizontal = 1  /\ vertical = 1  -> 3
      [] horizontal = -1 /\ vertical = 1  -> 1
      [] horizontal = 1  /\ vertical = -1 -> 9
      [] OTHER -> 7

to_direction(horizontal, vertical) ==
    CASE horizontal = 0  /\ vertical = 0  -> 5
      [] horizontal = 1  /\ vertical = 0  -> 6
      [] horizontal = -1 /\ vertical = 0  -> 4
      [] horizontal = 0  /\ vertical = 1  -> 8
      [] horizontal = 0  /\ vertical = -1 -> 2
      [] horizontal = 1  /\ vertical = 1  -> 9
      [] horizontal = -1 /\ vertical = 1  -> 7
      [] horizontal = 1  /\ vertical = -1 -> 3
      [] OTHER -> 1

\* mutant of direction_from_ds4_hat: the hat is read counter-clockwise
direction_from_ds4_hat_mirrored(hat) ==
    CASE hat = 0 -> 8
      [] hat = 1 -> 7
      [] hat = 2 -> 4
      [] hat = 3 -> 1
      [] hat = 4 -> 2
      [] hat = 5 -> 3
      [] hat = 6 -> 6
      [] hat = 7 -> 9
      [] OTHER -> 5

direction_from_ds4_hat(hat) ==
    CASE hat = 0 -> 8
      [] hat = 1 -> 9
      [] hat = 2 -> 6
      [] hat = 3 -> 3
      [] hat = 4 -> 2
      [] hat = 5 -> 1
      [] hat = 6 -> 4
      [] hat = 7 -> 7
      [] OTHER -> 5

direction_from_analog_stick(left_x, left_y) ==
    LET horizontal == IF left_x >= ANALOG_CENTER + ANALOG_AXIS_DEADZONE THEN 1
                      ELSE IF left_x <= ANALOG_CENTER - ANALOG_AXIS_DEADZONE THEN -1
                      ELSE 0
        vertical   == IF left_y <= ANALOG_CENTER - ANALOG_AXIS_DEADZONE THEN 1
                      ELSE IF left_y >= ANALOG_CENTER + ANALOG_AXIS_DEADZONE THEN -1
                      ELSE 0
    IN  to_direction(horizontal, vertical)

has_xinput_button(current, expected) == BitAnd(current, expected) = expected

\* mutant of xinput_trigger_down: the threshold itself does not count as down
xinput_trigger_down_above(trigger) == trigger > XINPUT_TRIGGER_THRESHOLD

\* `gamepad.bLeftTrigger >= XINPUT_TRIGGER_THRESHOLD` (and bRightTrigger)
xinput_trigger_down(trigger) == trigger >= XINPUT_TRIGGER_THRESHOLD

\* An XINPUT_STATE's Gamepad, as far as the decoder reads it.
XInputGamepad(wButtons, bLeftTrigger, bRightTrigger, sThumbLX, sThumbLY) ==
    [wButtons |-> wButtons, bLeftTrigger |-> bLeftTrigger,
     bRightTrigger |-> bRightTrigger, sThumbLX |-> sThumbLX, sThumbLY |-> sThumbLY]

sample_from_xinput_state(gamepad) ==
    LET buttons == gamepad.wButtons
        m1  == OrIf(0,   has_xinput_button(buttons, XINPUT_GAMEPAD_A), BUTTON_SOUTH_MASK)
        m2  == OrIf(m1,  has_xinput_button(buttons, XINPUT_GAMEPAD_B), BUTTON_EAST_MASK)
        m3  == OrIf(m2,  has_xinput_button(buttons, XINPUT_GAMEPAD_X), BUTTON_WEST_MASK)
        m4  == OrIf(m3,  has_xinput_button(buttons, XINPUT_GAMEPAD_Y), BUTTON_NORTH_MASK)
        m5  == OrIf(m4,  has_xinput_button(buttons, XINPUT_GAMEPAD_LEFT_SHOULDER), BUTTON_L1_MASK)
        m6  == OrIf(m5,  has_xinput_button(buttons, XINPUT_GAMEPAD_RIGHT_SHOULDER), BUTTON_R1_MASK)
        m7  == OrIf(m6,  xinput_trigger_down(gamepad.bLeftTrigger), BUTTON_L2_MASK)
        m8  == OrIf(m7,  xinput_trigger_down(gamepad.bRightTrigger), BUTTON_R2_MASK)
        m9  == OrIf(m8,  has_xinput_button(buttons, XINPUT_GAMEPAD_BACK), BUTTON_SELECT_MASK)
        m10 == OrIf(m9,  has_xinput_button(buttons, XINPUT_GAMEPAD_START), BUTTON_START_MASK)
        m11 == OrIf(m10, has_xinput_button(buttons, XINPUT_GAMEPAD_LEFT_THUMB), BUTTON_L3_MASK)
        m12 == OrIf(m11, has_xinput_button(buttons, XINPUT_GAMEPAD_RIGHT_THUMB), BUTTON_R3_MASK)
        dpad_up    == has_xinput_button(buttons, XINPUT_GAMEPAD_DPAD_UP)
        dpad_down  == has_xinput_button(buttons, XINPUT_GAMEPAD_DPAD_DOWN)
        dpad_left  == has_xinput_button(buttons, XINPUT_GAMEPAD_DPAD_LEFT)
        dpad_right == has_xinput_button(buttons, XINPUT_GAMEPAD_DPAD_RIGHT)
        m13 == OrIf(m12, dpad_up, BUTTON_DPAD_UP_MASK)
        m14 == OrIf(m13, dpad_down, BUTTON_DPAD_DOWN_MASK)
        m15 == OrIf(m14, dpad_left, BUTTON_DPAD_LEFT_MASK)
        down_mask == OrIf(m15, dpad_right, BUTTON_DPAD_RIGHT_MASK)
        up    == dpad_up \/ gamepad.sThumbLY > XINPUT_AXIS_DEADZONE
        down  == dpad_down \/ gamepad.sThumbLY < -XINPUT_AXIS_DEADZONE
        left  == dpad_left \/ gamepad.sThumbLX < -XINPUT_AXIS_DEADZONE
        right == dpad_right \/ gamepad.sThumbLX > XINPUT_AXIS_DEADZONE
        horizontal == IF right THEN 1 ELSE IF left THEN -1 ELSE 0
        vertical   == IF up THEN 1 ELSE IF down THEN -1 ELSE 0
    IN  InputSample(to_direction(horizontal, vertical), down_mask)

\* `matches!(hat, 0 | 1 | 7)` and the three after it: the D-pad flags of a hat
hat_dpad_up(hat) == hat \in {0, 1, 7}
hat_dpad_down(hat) == hat \in {3, 4, 5}
hat_dpad_left(hat) == hat \in {5, 6, 7}
hat_dpad_right(hat) == hat \in {1, 2, 3}

\* mutant of direction_hat_first: a deflected stick wins over the hat
direction_stick_first(hat_direction, left_x, left_y) ==
    IF direction_from_analog_stick(left_x, left_y) # 5
    THEN direction_from_analog_stick(left_x, left_y)
    ELSE hat_direction

\* `if hat_direction != 5 { hat_direction } else
\*  { direction_from_analog_stick(report[1], report[2]) }`
direction_hat_first(hat_direction, left_x, left_y) ==
    IF hat_direction # 5 THEN hat_direction
    ELSE direction_from_analog_stick(left_x, left_y)

\* Option<(u8, u16)>
Some(direction, down_mask) ==
    [some |-> TRUE, direction |-> direction, down_mask |-> down_mask]

NoneDecoded == [some |-> FALSE, direction |-> 0, down_mask |-> 0]

\* report is the slice &report[..read_size]: a sequence of bytes, report[0] of
\* the code being report[1] here.
decode_gp2040_ps4_report(report) ==
    IF Len(report) < 10 \/ report[1] # 1 THEN NoneDecoded
    ELSE
    LET buttons0 == report[6]
        buttons1 == report[7]
        left_trigger_analog  == report[9]
        right_trigger_analog == report[10]
        m1  == OrIf(0,   BitAnd(buttons0, 32) # 0, BUTTON_SOUTH_MASK)
        m2  == OrIf(m1,  BitAnd(buttons0, 64) # 0, BUTTON_EAST_MASK)
        m3  == OrIf(m2,  BitAnd(buttons0, 16) # 0, BUTTON_WEST_MASK)
        m4  == OrIf(m3,  BitAnd(buttons0, 128) # 0, BUTTON_NORTH_MASK)
        m5  == OrIf(m4,  BitAnd(buttons1, 1) # 0, BUTTON_L1_MASK)
        m6  == OrIf(m5,  BitAnd(buttons1, 2) # 0, BUTTON_R1_MASK)
        m7  == OrIf(m6,  BitAnd(buttons1, 4) # 0
                           \/ left_trigger_analog >= TRIGGER_BYTE_THRESHOLD, BUTTON_L2_MASK)
        m8  == OrIf(m7,  BitAnd(buttons1, 8) # 0
                           \/ right_trigger_analog >= TRIGGER_BYTE_THRESHOLD, BUTTON_R2_MASK)
        m9  == OrIf(m8,  BitAnd(buttons1, 16) # 0, BUTTON_SELECT_MASK)
        m10 == OrIf(m9,  BitAnd(buttons1, 32) # 0, BUTTON_START_MASK)
        m11 == OrIf(m10, BitAnd(buttons1, 64) # 0, BUTTON_L3_MASK)
        m12 == OrIf(m11, BitAnd(buttons1, 128) # 0, BUTTON_R3_MASK)
        hat == BitAnd(buttons0, 15)
        dpad_up    == hat_dpad_up(hat)
        dpad_down  == hat_dpad_down(hat)
        dpad_left  == hat_dpad_left(hat)
        dpad_right == hat_dpad_right(hat)
        m13 == OrIf(m12, dpad_up, BUTTON_DPAD_UP_MASK)
        m14 == OrIf(m13, dpad_down, BUTTON_DPAD_DOWN_MASK)
        m15 == OrIf(m14, dpad_left, BUTTON_DPAD_LEFT_MASK)
        down_mask == OrIf(m15, dpad_right, BUTTON_DPAD_RIGHT_MASK)
        hat_direction == direction_from_ds4_hat(hat)
        direction == direction_hat_first(hat_direction, report[2], report[3])
    IN  Some(direction, down_mask)

(***************************************************************************)
(* The environment: what the devices may answer.                           *)
(***************************************************************************)
\* return codes of the XInputGetState calls of one poll, by slot: success (0),
\* not connected, or another error (160, ERROR_BAD_ARGUMENTS)
SlotAnswers(r0, r1, r2, r3) == [slot \in 0..3 |-> <<r0, r1, r2, r3>>[slot + 1]]

XInputAnswers ==
    LET nc == ERROR_DEVICE_NOT_CONNECTED
    IN  { SlotAnswers(0, 0, 0, 0),
          SlotAnswers(nc, nc, 0, nc),
          SlotAnswers(nc, nc, nc, nc),
          SlotAnswers(160, 0, 0, 0),
          SlotAnswers(nc, nc, 160, 0) }

\* the answers of the four slots to one poll: each 0, not connected or 160
AllSlotAnswers ==
    LET codes == {0, ERROR_DEVICE_NOT_CONNECTED, 160}
    IN  { SlotAnswers(r0, r1, r2, r3) :
              r0 \in codes, r1 \in codes, r2 \in codes, r3 \in codes }

\* gamepad states a successful XInputGetState may deliver
XInputGamepads ==
    { XInputGamepad(XINPUT_GAMEPAD_A + XINPUT_GAMEPAD_DPAD_RIGHT, 0, 0, 0, 0),
      XInputGamepad(0, XINPUT_TRIGGER_THRESHOLD, 0, 0, 20000) }

\* A DualShock-4 style input report of n bytes (n <= 10 here, zero padded).
Ds4Report(n, id, left_x, left_y, buttons0, buttons1, lt, rt) ==
    SubSeq(<<id, left_x, left_y, 127, 127, buttons0, buttons1, 0, lt, rt>>, 1, n)

\* what one read_timeout(&mut report, 0) may deliver: nothing, a short report,
\* a report with another id, valid reports, or a read error
HidReads ==
    { [ok |-> TRUE,  report |-> << >>],
      [ok |-> TRUE,  report |-> Ds4Report(9, 1, 127, 127, 2, 0, 0, 0)],
      [ok |-> TRUE,  report |-> Ds4Report(10, 2, 127, 127, 0, 0, 0, 0)],
      [ok |-> TRUE,  report |-> Ds4Report(10, 1, 127, 127, 32 + 2, 0, 0, 0)],
      [ok |-> TRUE,  report |-> Ds4Report(10, 1, 0, 127, 8, 1, 0, 0)],
      [ok |-> FALSE, report |-> << >>] }

(***************************************************************************)
(* platform.rs: the sources.  A source is a record                         *)
(*   kind                  "xinput" | "hid" | "stub" (non-Windows build)   *)
(*   preferred_user_index  XInputPrimarySource                             *)
(*   direction, down_mask  Ps4HidNativeSource                              *)
(* A poll yields [ok, sample, source, read]: the Result, the source after  *)
(* it and the bytes the HID read delivered.                                 *)
(***************************************************************************)
NoSource == [kind |-> "none", preferred_user_index |-> 0, direction |-> 0, down_mask |-> 0]

XInputPrimarySource_new ==
    [kind |-> "xinput", preferred_user_index |-> 0, direction |-> 0, down_mask |-> 0]

Ps4HidNativeSource_new ==
    [kind |-> "hid", preferred_user_index |-> 0, direction |-> 5, down_mask |-> 0]

PollOk(sample, source, read) ==
    [ok |-> TRUE, sample |-> sample, source |-> source, read |-> read]
\* an Err carries no sample
NoSample == [direction |-> 0, down_mask |-> 0]
PollErr(source, read) ==
    [ok |-> FALSE, sample |-> NoSample, source |-> source, read |-> read]

\* a poll's Result together with the slots it handed to XInputGetState, in
\* the order of the calls
Queried(result, queried) ==
    [ok |-> result.ok, sample |-> result.sample, source |-> result.source,
     read |-> result.read, queried |-> queried]

\* the loop `for user_index in order` from position i on; queried is the
\* sequence of slots handed to XInputGetState so far (visited = its range)
RECURSIVE XInputPrimarySource_poll_from(_, _, _, _, _)
XInputPrimarySource_poll_from(i, queried, source, rets, gamepad) ==
    LET order == <<source.preferred_user_index, 0, 1, 2, 3>>
        visited == {queried[k] : k \in 1..Len(queried)}
    IN  IF i > Len(order) THEN Queried(PollOk(neutral, source, << >>), queried)
        ELSE LET user_index == order[i] IN
             IF user_index >= XUSER_MAX_COUNT \/ user_index \in visited
             THEN XInputPrimarySource_poll_from(i + 1, queried, source, rets, gamepad)
             ELSE IF rets[user_index] = 0
             THEN Queried(PollOk(sample_from_xinput_state(gamepad),
                                 [source EXCEPT !.preferred_user_index = user_index],
                                 << >>),
                          Append(queried, user_index))
             ELSE IF rets[user_index] = ERROR_DEVICE_NOT_CONNECTED
             THEN XInputPrimarySource_poll_from(i + 1, Append(queried, user_index),
                                                source, rets, gamepad)
             ELSE Queried(PollErr(source, << >>), Append(queried, user_index))

\* mutant of XInputPrimarySource_poll: the remembered slot is not tried first
XInputPrimarySource_poll_in_slot_order(source, rets, gamepad) ==
    XInputPrimarySource_poll_from(2, << >>, source, rets, gamepad)

XInputPrimarySource_poll(source, rets, gamepad) ==
    XInputPrimarySource_poll_from(1, << >>, source, rets, gamepad)

\* mutant of Ps4HidNativeSource_poll: a read that decodes to nothing resets the
\* remembered state to neutral
Ps4HidNativeSource_poll_resetting(source, read) ==
    IF ~read.ok THEN PollErr(source, read.report)
    ELSE LET decoded == IF Len(read.report) > 0
                        THEN decode_gp2040_ps4_report(read.report)
                        ELSE NoneDecoded
             after == IF decoded.some
                      THEN [source EXCEPT !.direction = decoded.direction,
                                          !.down_mask = decoded.down_mask]
                      ELSE [source EXCEPT !.direction = 5, !.down_mask = 0]
         IN  PollOk(InputSample(after.direction, after.down_mask), after, read.report)

Ps4HidNativeSource_poll(source, read) ==
    IF ~read.ok THEN PollErr(source, read.report)
    ELSE LET read_size == Len(read.report)
             decoded == IF read_size > 0 THEN decode_gp2040_ps4_report(read.report)
                        ELSE NoneDecoded
             after == IF decoded.some
                      THEN [source EXCEPT !.direction = decoded.direction,
                                          !.down_mask = decoded.down_mask]
                      ELSE source
         IN  PollOk(InputSample(after.direction, after.down_mask), after, read.report)

\* mutant of unwrap_or_neutral: an Err gives what the source remembers
unwrap_or_remembered(result) ==
    IF result.ok THEN result.sample
    ELSE InputSample(result.source.direction, result.source.down_mask)

\* `.unwrap_or_else(|_| InputSample::neutral(now_ms()))`
unwrap_or_neutral(result) == IF result.ok THEN result.sample ELSE neutral

\* the Results one backend poll may give, over what the device may answer
BackendPolls(source) ==
    CASE source.kind = "xinput" ->
           { XInputPrimarySource_poll(source, rets, gamepad) :
                 rets \in XInputAnswers,
                 gamepad \in XInputGamepads }
      [] source.kind = "hid" ->
           { Ps4HidNativeSource_poll(source, read) : read \in HidReads }
      [] OTHER -> { PollOk(neutral, source, << >>) }

(***************************************************************************)
(* State.                                                                  *)
(***************************************************************************)
VARIABLES
    windows,       \* the build: cfg(windows) or cfg(not(windows))
    worker,        \* InputRuntimeState.worker: NoWorker or the handle of a worker
    mutex,         \* the caller holding the Mutex, or None
    cpc,           \* each caller's position in its command
    cmode,         \* input_start's argument `mode`
    cdetect,       \* input_start's local `detect`
    called_running, \* history: a handle was installed when input_start was invoked
    chandle,       \* the InputWorker a caller holds in a local
    last_return,   \* <<command, value>> of the command that returned last
    frames_at_stop, \* history: the frames the worker had emitted when input_stop set its flag
    tpc,           \* each worker thread's position in its closure
    tmode,         \* the closure's captured `mode`
    stop_flag,     \* the Arc<AtomicBool> shared by handle and thread
    source,        \* the closure's local `source`
    frame_index,   \* the closure's local `frame_index`
    poll_result,   \* this tick's backend poll: [ok, read] (Ok or Err, bytes read)
    sample,        \* the closure's local `sample`
    payload,       \* the closure's local `payload`
    emitted,       \* the frame numbers of the input/frame events of a worker
    error_events,  \* the messages of the input/error events of a worker
    spawned,       \* the number of worker threads spawned so far
    tick_time,     \* the closure's local `elapsed` and the time slept, nanoseconds
    state_dropped, \* << >>, or <<w>> once the InputRuntimeState was dropped holding w
    call           \* one application of a function of the decoders: [fn, args, done, result]

cvars == <<cpc, cmode, cdetect, called_running, chandle, last_return, frames_at_stop>>
tvars == <<tpc, tmode, stop_flag, source, frame_index, poll_result, sample, payload,
           tick_time>>
evars == <<emitted, error_events, spawned>>
vars == <<windows, worker, mutex, cvars, tvars, evars, state_dropped, call>>

NoDetect == [xinput |-> FALSE, hid |-> FALSE]
NoPoll == [ok |-> TRUE, read |-> << >>]
NoPayload == [frame |-> 0, direction |-> 0, down |-> << >>]
\* no `elapsed` taken yet in this tick
NoTick == [elapsed |-> 0, slept |-> 0]
\* no function of the decoders is being applied
NoCall == [fn |-> "none", args |-> << >>, done |-> TRUE, result |-> << >>]

\* the runtime state after construction: no worker, no command under way
InitRuntime ==
    /\ windows \in BOOLEAN
    /\ worker = NoWorker
    /\ mutex = None
    /\ cpc = [p \in Callers |-> "idle"]
    /\ cmode = [p \in Callers |-> "xinput"]
    /\ cdetect = [p \in Callers |-> NoDetect]
    /\ called_running = [p \in Callers |-> FALSE]
    /\ chandle = [p \in Callers |-> NoWorker]
    /\ last_return = <<"none", "none">>
    /\ frames_at_stop = [p \in Callers |-> 0]
    /\ tpc = [t \in WorkerIds |-> "unborn"]
    /\ tmode = [t \in WorkerIds |-> "xinput"]
    /\ stop_flag = [t \in WorkerIds |-> FALSE]
    /\ source = [t \in WorkerIds |-> NoSource]
    /\ frame_index = [t \in WorkerIds |-> 0]
    /\ poll_result = [t \in WorkerIds |-> NoPoll]
    /\ sample = [t \in WorkerIds |-> neutral]
    /\ emitted = [t \in WorkerIds |-> << >>]
    /\ payload = [t \in WorkerIds |-> NoPayload]
    /\ error_events = [t \in WorkerIds |-> << >>]
    /\ spawned = 0
    /\ tick_time = [t \in WorkerIds |-> NoTick]
    /\ state_dropped = << >>

Init ==
    /\ InitRuntime
    /\ call = NoCall

NativeInputMode == {"xinput", "hid"}

Ok == "Ok"
ErrNotDetected(mode) ==
    IF mode = "xinput"
    THEN "Native input mode 'xinput' did not detect a connected controller."
    ELSE "Native input mode 'hid' did not detect a supported PS4 HID controller."
ErrSpawn == "Failed to start native input polling thread"
ErrHidOpen == "Native input mode 'hid' could not open a supported PS4 HID device"
ErrNotWindows == "Native input is available only on Windows native builds."

\* a worker thread that has been spawned and has not returned from its closure
Alive(t) == tpc[t] \in {"new", "loop", "poll", "emit", "sleep"}
Exited(t) == tpc[t] \in {"done", "failed"}

(***************************************************************************)
(* platform.rs: input_detect and InputSource::new, over what the devices   *)
(* may answer.                                                             *)
(***************************************************************************)
\* what detect_xinput_controller and detect_ps4_hid_controller may find: a
\* controller of one kind and none of the other
DetectAnswers ==
    { [xinput |-> TRUE, hid |-> FALSE], [xinput |-> FALSE, hid |-> TRUE] }

input_detect ==
    IF windows THEN DetectAnswers
    ELSE {[xinput |-> FALSE, hid |-> FALSE]}

\* the Results of InputSource::new(mode): [ok, source, message]
InputSource_new(mode) ==
    IF ~windows THEN {[ok |-> FALSE, source |-> NoSource, message |-> ErrNotWindows]}
    ELSE IF mode = "xinput"
    THEN {[ok |-> TRUE, source |-> XInputPrimarySource_new, message |-> ""]}
    ELSE {[ok |-> TRUE, source |-> Ps4HidNativeSource_new, message |-> ""],
          [ok |-> FALSE, source |-> NoSource, message |-> ErrHidOpen]}

(***************************************************************************)
(* mod.rs: input_start.                                                    *)
(***************************************************************************)
\* mutant of mode_not_detected: each mode consults the other mode's flag
mode_not_detected_swapped(mode, detect) ==
    \/ mode = "xinput" /\ ~detect.hid
    \/ mode = "hid" /\ ~detect.xinput

\* the guards of `match mode`: the requested mode's flag is false
mode_not_detected(mode, detect) ==
    \/ mode = "xinput" /\ ~detect.xinput
    \/ mode = "hid" /\ ~detect.hid

\* mutant of worker_guard_is_some: the check for a running worker is missing
worker_guard_never_some == FALSE

\* `worker_guard.is_some()`
worker_guard_is_some == worker # NoWorker

\* mutant of already_running: a start while a worker runs is refused
already_running_refused == "Native input is already running."

\* `return Ok(())` of the branch `if worker_guard.is_some()`
already_running == Ok

\* a command returns: its argument, its locals and its guard, if held, are
\* dropped (a command that returns in the step that grants it the mutex leaves
\* the mutex free)
Return(p, command, value) ==
    /\ cpc' = [cpc EXCEPT ![p] = "idle"]
    /\ cmode' = [cmode EXCEPT ![p] = "xinput"]
    /\ cdetect' = [cdetect EXCEPT ![p] = NoDetect]
    /\ called_running' = [called_running EXCEPT ![p] = FALSE]
    /\ frames_at_stop' = [frames_at_stop EXCEPT ![p] = 0]
    /\ last_return' = <<command, value>>
    /\ mutex' = IF mutex = p THEN None ELSE mutex

\* a command goes on to its statement at pc
Goto(p, pc) ==
    /\ cpc' = [cpc EXCEPT ![p] = pc]
    /\ UNCHANGED <<cmode, cdetect, called_running, last_return>>

\* input_start(mode) is invoked: `let detect = platform::input_detect()`
input_start_call(p, mode) ==
    /\ cpc[p] = "idle"
    /\ state_dropped = << >>
    /\ cpc' = [cpc EXCEPT ![p] = "start_match"]
    /\ cmode' = [cmode EXCEPT ![p] = mode]
    /\ \E detect \in input_detect : cdetect' = [cdetect EXCEPT ![p] = detect]
    /\ called_running' = [called_running EXCEPT ![p] = worker # NoWorker]
    /\ UNCHANGED <<windows, call, state_dropped, worker, mutex, chandle, last_return,
                   frames_at_stop, tvars, evars>>

\* `match mode { XInput if !detect.xinput => return Err(..), Hid if !detect.hid
\*  => return Err(..), _ => {} }`
input_start_match(p) ==
    /\ cpc[p] = "start_match"
    /\ IF mode_not_detected(cmode[p], cdetect[p])
       THEN Return(p, "input_start", ErrNotDetected(cmode[p]))
       ELSE /\ cpc' = [cpc EXCEPT ![p] = "start_lock"]
            /\ called_running' = [called_running EXCEPT ![p] = FALSE]
            /\ UNCHANGED <<cmode, cdetect, last_return, frames_at_stop, mutex>>
    /\ UNCHANGED <<windows, call, state_dropped, worker, chandle, tvars, evars>>

\* no thread of this identity runs and no handle of it is held
Free(t) ==
    /\ ~Alive(t)
    /\ worker # Handle(t)
    /\ \A q \in Callers : chandle[q] # Handle(t)

\* thread::Builder::spawn of InputWorker::start gives a running thread with a
\* stop flag of its own (false) and no events yet
Spawn(p, t) ==
    /\ spawned < MaxWorkers
    /\ Free(t)
    /\ \A u \in WorkerIds : u < t => ~Free(u)
    /\ spawned' = spawned + 1
    /\ tpc' = [tpc EXCEPT ![t] = "new"]
    /\ tmode' = [tmode EXCEPT ![t] = cmode[p]]
    /\ stop_flag' = [stop_flag EXCEPT ![t] = FALSE]
    /\ emitted' = [emitted EXCEPT ![t] = << >>]
    /\ error_events' = [error_events EXCEPT ![t] = << >>]
    /\ chandle' = [chandle EXCEPT ![p] = Handle(t)]

\* `state.worker.lock()` is granted (no holder of the mutex can panic, so the
\* lock is never poisoned and lock() never fails); then
\* `if worker_guard.is_some() { return Ok(()) }` and, if not,
\* `InputWorker::start(app, mode)?`: the thread is spawned, or spawn fails
input_start_lock(p) ==
    /\ cpc[p] = "start_lock"
    /\ mutex = None
    /\ IF worker_guard_is_some
       THEN /\ Return(p, "input_start", already_running)
            /\ UNCHANGED <<tpc, tmode, stop_flag, chandle, evars>>
       ELSE \/ /\ \E t \in WorkerIds : Spawn(p, t)
               /\ Goto(p, "start_install")
               /\ mutex' = p
               /\ UNCHANGED frames_at_stop
            \/ /\ Return(p, "input_start", ErrSpawn)
               /\ UNCHANGED <<tpc, tmode, stop_flag, chandle, evars>>
    /\ UNCHANGED <<windows, call, state_dropped, worker, source, frame_index, poll_result, sample,
                 payload, tick_time>>

\* `*worker_guard = Some(worker); Ok(())`
input_start_install(p) ==
    /\ cpc[p] = "start_install"
    /\ worker' = chandle[p]
    /\ chandle' = [chandle EXCEPT ![p] = NoWorker]
    /\ Return(p, "input_start", Ok)
    /\ UNCHANGED <<windows, call, state_dropped, tvars, evars>>

(***************************************************************************)
(* mod.rs: input_stop and InputWorker::stop.                               *)
(***************************************************************************)
input_stop_call(p) ==
    /\ cpc[p] = "idle"
    /\ state_dropped = << >>
    /\ Goto(p, "stop_lock")
    /\ UNCHANGED <<windows, call, state_dropped, worker, mutex, chandle, frames_at_stop,
                   tvars, evars>>

\* `state.worker.lock()` is granted; then
\* `if let Some(worker) = worker_guard.take() { worker.stop() }`, as far as
\* `self.stop_flag.store(true, Ordering::Relaxed)`
input_stop_lock(p) ==
    /\ cpc[p] = "stop_lock"
    /\ mutex = None
    /\ IF worker # NoWorker
       THEN /\ chandle' = [chandle EXCEPT ![p] = worker]
            /\ worker' = NoWorker
            /\ stop_flag' = [stop_flag EXCEPT ![thread_of(worker)] = TRUE]
            /\ frames_at_stop' = [frames_at_stop EXCEPT ![p] = Len(emitted[thread_of(worker)])]
            /\ Goto(p, "stop_join")
            /\ mutex' = p
       ELSE /\ Return(p, "input_stop", Ok)
            /\ UNCHANGED <<chandle, worker, stop_flag>>
    /\ UNCHANGED <<windows, call, state_dropped, tpc, tmode, source, frame_index, poll_result, sample,
                 payload, tick_time, evars>>

\* mutant of InputWorker_stop_join: stop does not wait for the thread
InputWorker_stop_without_join(p) ==
    /\ cpc[p] = "stop_join"
    /\ chandle' = [chandle EXCEPT ![p] = NoWorker]
    /\ Return(p, "input_stop", Ok)
    /\ UNCHANGED <<windows, call, state_dropped, worker, tvars, evars>>

\* `join_handle.join()` returns once the thread has returned from its closure;
\* then input_stop returns Ok, dropping the guard
InputWorker_stop_join(p) ==
    /\ cpc[p] = "stop_join"
    /\ Exited(thread_of(chandle[p]))
    /\ chandle' = [chandle EXCEPT ![p] = NoWorker]
    /\ Return(p, "input_stop", Ok)
    /\ UNCHANGED <<windows, call, state_dropped, worker, tvars, evars>>

(***************************************************************************)
(* mod.rs: the closure of the worker thread.                               *)
(***************************************************************************)
\* mutant of saturating_add: the counter is not advanced
saturating_add_stuck(a, b) == a

\* `frame_index.saturating_add(1)` on a u64: the counters of the model stay
\* below MaxFrames + 1, far below the value 2^64 - 1 at which the sum saturates
saturating_add(a, b) == a + b

\* the end of the loop's body: the locals of one tick are dropped
DropTick(t) ==
    /\ poll_result' = [poll_result EXCEPT ![t] = NoPoll]
    /\ sample' = [sample EXCEPT ![t] = neutral]
    /\ payload' = [payload EXCEPT ![t] = NoPayload]

\* the closure returns: what it captured and its locals are dropped
DropLocals(t) ==
    /\ tmode' = [tmode EXCEPT ![t] = "xinput"]
    /\ source' = [source EXCEPT ![t] = NoSource]
    /\ frame_index' = [frame_index EXCEPT ![t] = 0]
    /\ tick_time' = [tick_time EXCEPT ![t] = NoTick]
    /\ DropTick(t)

\* mutant of worker_new: after `app.emit("input/error", message)` the closure
\* does not return but goes on into the loop
worker_new_no_return(t) ==
    /\ tpc[t] = "new"
    /\ \E r \in InputSource_new(tmode[t]) :
          /\ source' = [source EXCEPT ![t] = r.source]
          /\ frame_index' = [frame_index EXCEPT ![t] = 0]
          /\ tpc' = [tpc EXCEPT ![t] = "loop"]
          /\ error_events' = [error_events EXCEPT ![t] =
                                 IF r.ok THEN @ ELSE Append(@, r.message)]
          /\ UNCHANGED <<tmode, poll_result, sample, payload, tick_time, emitted, spawned>>
    /\ UNCHANGED <<windows, call, state_dropped, worker, mutex, cvars, stop_flag>>

\* `match platform::InputSource::new(mode)`: the source and frame_index = 0,
\* or `app.emit("input/error", message); return`
worker_new(t) ==
    /\ tpc[t] = "new"
    /\ \E r \in InputSource_new(tmode[t]) :
          IF r.ok
          THEN /\ source' = [source EXCEPT ![t] = r.source]
               /\ frame_index' = [frame_index EXCEPT ![t] = 0]
               /\ tpc' = [tpc EXCEPT ![t] = "loop"]
               /\ UNCHANGED <<tmode, poll_result, sample, payload, tick_time, evars>>
          ELSE /\ error_events' = [error_events EXCEPT ![t] = Append(@, r.message)]
               /\ tpc' = [tpc EXCEPT ![t] = "failed"]
               /\ DropLocals(t)
               /\ UNCHANGED <<emitted, spawned>>
    /\ UNCHANGED <<windows, call, state_dropped, worker, mutex, cvars, stop_flag>>

\* mutant of worker_loop: the loop does not load the stop flag
worker_loop_deaf(t) ==
    /\ tpc[t] = "loop"
    /\ frame_index[t] < MaxFrames
    /\ tpc' = [tpc EXCEPT ![t] = "poll"]
    /\ tick_time' = [tick_time EXCEPT ![t] = NoTick]
    /\ UNCHANGED <<tmode, source, frame_index, poll_result, sample, payload>>
    /\ UNCHANGED <<windows, call, state_dropped, worker, mutex, cvars, stop_flag, evars>>

\* `while !thread_stop_flag.load(Ordering::Relaxed)` and, in the loop,
\* `let tick_start = Instant::now()`.  The frame counter is a
\* u64; the model lets a worker begin a tick only below MaxFrames, far below
\* the value at which saturating_add would saturate.
worker_loop(t) ==
    /\ tpc[t] = "loop"
    /\ IF stop_flag[t]
       THEN /\ tpc' = [tpc EXCEPT ![t] = "done"]
            /\ DropLocals(t)
       ELSE /\ frame_index[t] < MaxFrames
            /\ tpc' = [tpc EXCEPT ![t] = "poll"]
            /\ tick_time' = [tick_time EXCEPT ![t] = NoTick]
            /\ UNCHANGED <<tmode, source, frame_index, poll_result, sample, payload>>
    /\ UNCHANGED <<windows, call, state_dropped, worker, mutex, cvars, stop_flag, evars>>

\* `let sample = source.poll()`: InputSource::poll over the backend's poll,
\* which gives one of the Results polls
worker_poll_over(t, polls) ==
    /\ tpc[t] = "poll"
    /\ \E r \in polls :
          /\ poll_result' = [poll_result EXCEPT ![t] = [ok |-> r.ok, read |-> r.read]]
          /\ source' = [source EXCEPT ![t] = r.source]
          /\ sample' = [sample EXCEPT ![t] = unwrap_or_neutral(r)]
    /\ tpc' = [tpc EXCEPT ![t] = "emit"]
    /\ UNCHANGED <<windows, call, state_dropped, worker, mutex, cvars, tmode, stop_flag,
                   frame_index, payload, tick_time, evars>>

worker_poll(t) == worker_poll_over(t, BackendPolls(source[t]))

\* `let payload = InputFramePayload { .. }; app.emit("input/frame", payload);
\*  frame_index = frame_index.saturating_add(1)`
worker_emit(t) ==
    /\ tpc[t] = "emit"
    /\ payload' = [payload EXCEPT ![t] = InputFramePayload(frame_index[t], sample[t])]
    /\ emitted' = [emitted EXCEPT ![t] = Append(@, payload'[t].frame)]
    /\ frame_index' = [frame_index EXCEPT ![t] = saturating_add(@, 1)]
    /\ tpc' = [tpc EXCEPT ![t] = "sleep"]
    /\ UNCHANGED <<windows, call, state_dropped, worker, mutex, cvars, tmode, stop_flag,
                   source, poll_result, sample, tick_time, error_events, spawned>>

\* what `tick_start.elapsed()` may give after the poll and the emit of a tick:
\* less than the frame period, exactly the period, more than it
TickWork == {1000000, FRAME_DURATION, FRAME_DURATION + 3333333}

\* mutant of sleep_duration: the worker always sleeps a whole frame period
sleep_duration_whole_period(elapsed) == FRAME_DURATION

\* `if elapsed < FRAME_DURATION { thread::sleep(FRAME_DURATION - elapsed) }`:
\* the Duration slept, 0 when the thread does not sleep
sleep_duration(elapsed) ==
    IF elapsed < FRAME_DURATION THEN FRAME_DURATION - elapsed ELSE 0

\* `let elapsed = tick_start.elapsed(); if elapsed < FRAME_DURATION { .. }`,
\* the end of the loop's body
worker_sleep(t) ==
    /\ tpc[t] = "sleep"
    /\ \E elapsed \in TickWork :
          tick_time' = [tick_time EXCEPT ![t] =
                           [elapsed |-> elapsed, slept |-> sleep_duration(elapsed)]]
    /\ tpc' = [tpc EXCEPT ![t] = "loop"]
    /\ DropTick(t)
    /\ UNCHANGED <<windows, call, state_dropped, worker, mutex, cvars, tmode, stop_flag,
                   source, frame_index, evars>>

(***************************************************************************)
(* mod.rs: the InputRuntimeState is dropped.  InputWorker has no Drop      *)
(* impl: dropping it drops its Arc<AtomicBool>, leaving the flag as it is, *)
(* and its JoinHandle, which detaches the thread.  A command borrows the   *)
(* state, so none is under way.                                            *)
(***************************************************************************)
InputRuntimeState_drop ==
    /\ state_dropped = << >>
    /\ \A p \in Callers : cpc[p] = "idle"
    /\ state_dropped' = <<worker>>
    /\ worker' = NoWorker
    /\ UNCHANGED <<windows, call, mutex, cvars, tvars, evars>>

Next ==
    \/ \E p \in Callers, mode \in NativeInputMode : input_start_call(p, mode)
    \/ \E p \in Callers : input_start_match(p)
    \/ \E p \in Callers : input_start_lock(p)
    \/ \E p \in Callers : input_start_install(p)
    \/ \E p \in Callers : input_stop_call(p)
    \/ \E p \in Callers : input_stop_lock(p)
    \/ \E p \in Callers : InputWorker_stop_join(p)
    \/ \E t \in WorkerIds : worker_new(t)
    \/ \E t \in WorkerIds : worker_loop(t)
    \/ \E t \in WorkerIds : worker_poll(t)
    \/ \E t \in WorkerIds : worker_emit(t)
    \/ \E t \in WorkerIds : worker_sleep(t)
    \/ InputRuntimeState_drop

Spec == Init /\ [][Next]_vars

\* The commands of one caller and the worker threads, every thread that is
\* scheduled again and again taking its next step: a worker thread goes on
\* with its closure, and a join returns once the thread has exited.
StopCallers == {"c1"}

\* per poll the device answers or fails: the first slot answers or returns
\* error 160; the HID read delivers a report or fails
StopBackendPolls(backend) ==
    CASE backend.kind = "xinput" ->
           { XInputPrimarySource_poll(backend, rets,
                                      XInputGamepad(XINPUT_GAMEPAD_A, 0, 0, 0, 0)) :
                 rets \in {SlotAnswers(0, 0, 0, 0), SlotAnswers(160, 0, 0, 0)} }
      [] backend.kind = "hid" ->
           { Ps4HidNativeSource_poll(backend, read) :
                 read \in { [ok |-> TRUE, report |-> Ds4Report(10, 1, 127, 127, 8, 1, 0, 0)],
                            [ok |-> FALSE, report |-> << >>] } }
      [] OTHER -> { PollOk(neutral, backend, << >>) }

NextFair ==
    \/ \E p \in StopCallers, mode \in NativeInputMode : input_start_call(p, mode)
    \/ \E p \in StopCallers : input_start_match(p)
    \/ \E p \in StopCallers : input_start_lock(p)
    \/ \E p \in StopCallers : input_start_install(p)
    \/ \E p \in StopCallers : input_stop_call(p)
    \/ \E p \in StopCallers : input_stop_lock(p)
    \/ \E p \in StopCallers : InputWorker_stop_join(p)
    \/ \E t \in WorkerIds : worker_new(t)
    \/ \E t \in WorkerIds : worker_loop(t)
    \/ \E t \in WorkerIds : worker_poll_over(t, StopBackendPolls(source[t]))
    \/ \E t \in WorkerIds : worker_emit(t)
    \/ \E t \in WorkerIds : worker_sleep(t)
    \/ InputRuntimeState_drop

SpecFair ==
    /\ Init
    /\ [][NextFair]_vars
    /\ \A t \in WorkerIds :
          WF_vars(worker_new(t) \/ worker_loop(t)
                     \/ worker_poll_over(t, StopBackendPolls(source[t]))
                     \/ worker_emit(t) \/ worker_sleep(t))
    /\ \A p \in StopCallers : WF_vars(InputWorker_stop_join(p))

(***************************************************************************)
(* The commands of one caller over devices that answer with every hat, a   *)
(* stick in every direction, and the D-pad and the thumb stick in every    *)
(* direction.                                                              *)
(***************************************************************************)
WideCallers == {"c1"}

WideHidReads ==
    { [ok |-> TRUE, report |-> Ds4Report(10, 1, left_x, left_y, hat, 0, 0, 0)] :
          left_x \in {0, 127, 255}, left_y \in {0, 127, 255}, hat \in 0..8 }
    \cup { [ok |-> TRUE,  report |-> << >>],
           [ok |-> TRUE,  report |-> Ds4Report(9, 1, 127, 127, 2, 0, 0, 0)],
           [ok |-> TRUE,  report |-> Ds4Report(10, 2, 127, 127, 0, 0, 0, 0)],
           [ok |-> FALSE, report |-> << >>] }

WideGamepads ==
    { XInputGamepad(dpad, 0, 0, 0, 0) : dpad \in 0..15 }
    \cup { XInputGamepad(0, 0, 0, x, y) :
               x \in {0 - 20000, 0, 20000}, y \in {0 - 20000, 0, 20000} }

WideBackendPolls(backend) ==
    CASE backend.kind = "xinput" ->
           { XInputPrimarySource_poll(backend, rets, gamepad) :
                 rets \in XInputAnswers,
                 gamepad \in WideGamepads }
      [] backend.kind = "hid" ->
           { Ps4HidNativeSource_poll(backend, read) : read \in WideHidReads }
      [] OTHER -> { PollOk(neutral, backend, << >>) }

NextWide ==
    \/ \E p \in WideCallers, mode \in NativeInputMode : input_start_call(p, mode)
    \/ \E p \in WideCallers : input_start_match(p)
    \/ \E p \in WideCallers : input_start_lock(p)
    \/ \E p \in WideCallers : input_start_install(p)
    \/ \E p \in WideCallers : input_stop_call(p)
    \/ \E p \in WideCallers : input_stop_lock(p)
    \/ \E p \in WideCallers : InputWorker_stop_join(p)
    \/ \E t \in WorkerIds : worker_new(t)
    \/ \E t \in WorkerIds : worker_loop(t)
    \/ \E t \in WorkerIds : worker_poll_over(t, WideBackendPolls(source[t]))
    \/ \E t \in WorkerIds : worker_emit(t)
    \/ \E t \in WorkerIds : worker_sleep(t)
    \/ InputRuntimeState_drop

SpecWide == Init /\ [][NextWide]_vars

(***************************************************************************)
(* The functions of the decoders, applied one at a time to arguments drawn *)
(* from the ranges of their types (u8 bytes, u16 masks, i16 axes) or from  *)
(* representatives of them around the thresholds.                          *)
(***************************************************************************)
Pending(fn, args) == [fn |-> fn, args |-> args, done |-> FALSE, result |-> << >>]

\* stick bytes around ANALOG_CENTER -/+ ANALOG_AXIS_DEADZONE (69 and 185)
StickBytes == {0, 68, 69, 70, 127, 184, 185, 186, 255}
\* trigger bytes around the two thresholds
TriggerBytes == {0, 139, 140, 141, 255}
\* thumb-stick axes around -/+ XINPUT_AXIS_DEADZONE
ThumbAxes == {0 - 32768, 0 - 16385, 0 - 16384, 0, 16384, 16385, 32767}
\* wButtons: nothing, a face button with the D-pad, all buttons
ButtonWords ==
    {0, XINPUT_GAMEPAD_A + XINPUT_GAMEPAD_DPAD_RIGHT,
     XINPUT_GAMEPAD_LEFT_SHOULDER + XINPUT_GAMEPAD_DPAD_UP + XINPUT_GAMEPAD_DPAD_LEFT, 65535}

\* reports for decode_gp2040_ps4_report: valid ones over every hat nibble,
\* stick deflections, face buttons, trigger clicks and trigger bytes; a short
\* one; one with another report id
DecodeReports ==
    { Ds4Report(10, 1, left_x, left_y, face + hat, buttons1, lt, 0) :
          left_x \in {0, 69, 127, 185, 255}, left_y \in {0, 69, 127, 185, 255},
          face \in {0, 32}, hat \in 0..15, buttons1 \in {0, 4}, lt \in {0, 140, 141} }
    \cup { Ds4Report(9, 1, 0, 0, 2, 0, 0, 0), Ds4Report(10, 2, 0, 0, 2, 0, 0, 0) }

\* XINPUT_STATEs for sample_from_xinput_state: every byte of one trigger
\* against representatives of the other
DecodeGamepads ==
    { XInputGamepad(b, lt, rt, x, 0) :
          b \in ButtonWords, lt \in 0..255, rt \in TriggerBytes, x \in {0, 16385} }
    \cup { XInputGamepad(b, lt, rt, 0, y) :
          b \in ButtonWords, lt \in TriggerBytes, rt \in 0..255, y \in {0, 0 - 16385} }
    \cup { XInputGamepad(0, 0, 0, x, y) : x \in ThumbAxes, y \in ThumbAxes }

InitDecode ==
    /\ InitRuntime
    /\ windows
    /\ \/ \E h \in -1..1, v \in -1..1 : call = Pending("to_direction", <<h, v>>)
       \/ \E hat \in 0..15 : call = Pending("direction_from_ds4_hat", <<hat>>)
       \/ \E x \in StickBytes, y \in StickBytes :
             call = Pending("direction_from_analog_stick", <<x, y>>)
       \/ \E report \in DecodeReports :
             call = Pending("decode_gp2040_ps4_report", <<report>>)
       \/ \E gamepad \in DecodeGamepads :
             call = Pending("sample_from_xinput_state", <<gamepad>>)
       \/ \E mask \in 0..65535 : call = Pending("mask_to_buttons", <<mask>>)
       \/ \E slot \in 0..3, rets \in AllSlotAnswers, gamepad \in XInputGamepads :
             call = Pending("XInputPrimarySource_poll",
                            <<[XInputPrimarySource_new EXCEPT !.preferred_user_index = slot],
                              rets, gamepad>>)

\* the pending application of fn returns result
Returns(fn, result) ==
    /\ call.fn = fn
    /\ ~call.done
    /\ call' = [call EXCEPT !.done = TRUE, !.result = result]
    /\ UNCHANGED <<windows, worker, mutex, cvars, tvars, evars, state_dropped>>

call_to_direction ==
    /\ call.fn = "to_direction"
    /\ Returns("to_direction", to_direction(call.args[1], call.args[2]))

call_direction_from_ds4_hat ==
    /\ call.fn = "direction_from_ds4_hat"
    /\ Returns("direction_from_ds4_hat", direction_from_ds4_hat(call.args[1]))

call_direction_from_analog_stick ==
    /\ call.fn = "direction_from_analog_stick"
    /\ Returns("direction_from_analog_stick",
               direction_from_analog_stick(call.args[1], call.args[2]))

call_decode_gp2040_ps4_report ==
    /\ call.fn = "decode_gp2040_ps4_report"
    /\ Returns("decode_gp2040_ps4_report", decode_gp2040_ps4_report(call.args[1]))

call_sample_from_xinput_state ==
    /\ call.fn = "sample_from_xinput_state"
    /\ Returns("sample_from_xinput_state", sample_from_xinput_state(call.args[1]))

call_mask_to_buttons ==
    /\ call.fn = "mask_to_buttons"
    /\ Returns("mask_to_buttons", mask_to_buttons(call.args[1]))

call_XInputPrimarySource_poll ==
    /\ call.fn = "XInputPrimarySource_poll"
    /\ Returns("XInputPrimarySource_poll",
               XInputPrimarySource_poll(call.args[1], call.args[2], call.args[3]))

NextDecode ==
    \/ call_to_direction
    \/ call_direction_from_ds4_hat
    \/ call_direction_from_analog_stick
    \/ call_decode_gp2040_ps4_report
    \/ call_sample_from_xinput_state
    \/ call_mask_to_buttons
    \/ call_XInputPrimarySource_poll

SpecDecode == InitDecode /\ [][NextDecode]_vars

(***************************************************************************)
(* The claims.                                                             *)
(***************************************************************************)
LiveWorkers == {t \in WorkerIds : Alive(t)}
Ticking(t) == tpc[t] \in {"poll", "emit", "sleep"}
StartPcs == {"start_match", "start_lock", "start_install"}
StopPcs == {"stop_lock", "stop_join"}

\* C1: under every interleaving of input_start and input_stop calls at most one
\* worker thread is alive, the runtime state holds at most one handle, and so
\* at most one thread is inside a tick of the loop.
C1_AtMostOneWorker ==
    /\ Cardinality(LiveWorkers) <= 1
    /\ Len(worker) <= 1
    /\ Cardinality({t \in WorkerIds : Ticking(t)}) <= 1

\* a second worker is in a tick while one caller joins it in input_stop and
\* the other caller is in input_start
C1_Witness ==
    /\ spawned = 2
    /\ \E t \in WorkerIds : tpc[t] = "emit" /\ chandle["c2"] = Handle(t)
    /\ cpc["c2"] = "stop_join"
    /\ cpc["c1"] = "start_lock"

\* C2 as claimed: an input_start invoked while the runtime state holds a
\* handle, and returning while it holds one, has returned Ok, spawned nothing
\* and left the handle alone.
C2_StartWhileRunningAlwaysOk ==
    [][\A p \in Callers :
          (cpc[p] \in StartPcs /\ cpc'[p] = "idle" /\ called_running[p]
              /\ worker # NoWorker)
          => /\ last_return' = <<"input_start", "Ok">>
             /\ worker' = worker
             /\ spawned' = spawned]_vars

\* C2 as amended: an input_start that has passed detection and, holding the
\* mutex, finds a handle installed returns Ok, spawns no thread and leaves the
\* handle and the worker untouched; an input_start whose detection fails while
\* a handle is installed returns the error and changes nothing either.
C2_StartWhileRunning ==
    [][\A p \in Callers :
          /\ (cpc[p] = "start_lock" /\ worker # NoWorker /\ cpc'[p] # cpc[p])
             => /\ cpc'[p] = "idle"
                /\ last_return' = <<"input_start", "Ok">>
                /\ UNCHANGED <<worker, tvars, evars>>
          /\ (cpc[p] = "start_match" /\ worker # NoWorker /\ cpc'[p] = "idle")
             => /\ last_return'[1] = "input_start" /\ last_return'[2] # "Ok"
                /\ UNCHANGED <<worker, tvars, evars>>]_vars

\* a second input_start, after one that returned Ok, has passed detection and
\* is about to take the free mutex and find the handle of a worker in a tick
C2_Witness ==
    /\ cpc["c1"] = "start_lock"
    /\ cpc["c2"] = "idle"
    /\ mutex = None
    /\ last_return = <<"input_start", "Ok">>
    /\ \E t \in WorkerIds : worker = Handle(t) /\ tpc[t] = "sleep" /\ emitted[t] = <<0>>

\* the requested mode's presence flag, as input_start's detection reported it
RequestedFlag(p) == IF cmode[p] = "xinput" THEN cdetect[p].xinput ELSE cdetect[p].hid

\* C3: when detection reports the requested mode's flag false, input_start
\* returns the error that names the mode, and neither a thread nor the
\* runtime state nor any event changes.
C3_NotDetectedFails ==
    [][\A p \in Callers :
          (cpc[p] = "start_match" /\ ~RequestedFlag(p) /\ cpc'[p] # cpc[p])
          => /\ cpc'[p] = "idle"
             /\ last_return' =
                   <<"input_start",
                     IF cmode[p] = "xinput"
                     THEN "Native input mode 'xinput' did not detect a connected controller."
                     ELSE "Native input mode 'hid' did not detect a supported PS4 HID controller.">>
             /\ UNCHANGED <<worker, mutex, chandle, tvars, evars>>]_vars

\* on Windows a start("xinput") has failed on detection and nothing was spawned
C3_Witness ==
    /\ windows
    /\ last_return = <<"input_start",
                       "Native input mode 'xinput' did not detect a connected controller.">>
    /\ spawned = 0
    /\ worker = NoWorker
    /\ \A p \in Callers : cpc[p] = "idle"

\* C4 as claimed: a backend that cannot be opened makes input_start fail
\* before any thread is spawned and any handle installed, so no spawned
\* thread ever finds that its backend does not open.
C4_OpenFailureSpawnsNothing ==
    \A t \in WorkerIds : tpc[t] = "failed" => (spawned = 0 /\ worker # Handle(t))

C6_FrameNumbers ==
    \A t \in WorkerIds :
        /\ \A i \in 1..Len(emitted[t]) : emitted[t][i] = i - 1
        /\ tpc[t] \in {"loop", "poll", "emit", "sleep"} => frame_index[t] = Len(emitted[t])

\* the second worker of a behaviour has emitted frames 0 and 1
C6_Witness ==
    /\ spawned = 2
    /\ \E t \in WorkerIds : Alive(t) /\ emitted[t] = <<0, 1>>

\* C7: a tick whose backend poll gave an Err has the neutral sample, emits
\* exactly one frame, with direction 5 and empty down, and ends like any
\* other tick, back at the head of the loop.
C7_PollErrorIsNeutral ==
    [][\A t \in WorkerIds :
          /\ (tpc[t] = "poll" /\ tpc'[t] # "poll" /\ ~poll_result'[t].ok)
             => /\ tpc'[t] = "emit"
                /\ sample'[t].direction = 5 /\ sample'[t].down_mask = 0
                /\ emitted'[t] = emitted[t]
          /\ (tpc[t] = "emit" /\ tpc'[t] # "emit" /\ ~poll_result[t].ok)
             => /\ tpc'[t] = "sleep"
                /\ payload'[t].direction = 5 /\ payload'[t].down = << >>
                /\ emitted'[t] = Append(emitted[t], payload'[t].frame)
          /\ (tpc[t] = "sleep" /\ tpc'[t] # "sleep" /\ ~poll_result[t].ok)
             => /\ tpc'[t] = "loop"
                /\ emitted'[t] = emitted[t]]_vars

\* a HID worker that remembers a direction other than neutral has emitted the
\* neutral frame of a tick whose read failed
C7_Witness ==
    \E t \in WorkerIds :
        /\ tpc[t] = "sleep"
        /\ ~poll_result[t].ok
        /\ source[t].kind = "hid" /\ source[t].direction # 5
        /\ payload[t].direction = 5 /\ payload[t].down = << >>

\* C8: a worker emits input/error at most once, and only on the path on which
\* its backend did not initialise; it has then exited and has emitted, and
\* will emit, no frame; a worker that has emitted a frame emits no input/error.
C8_ErrorEventOnce ==
    /\ [](\A t \in WorkerIds :
             /\ Len(error_events[t]) <= 1
             /\ error_events[t] # << >> => (tpc[t] = "failed" /\ emitted[t] = << >>))
    /\ [][\A t \in WorkerIds :
             /\ (error_events'[t] # error_events[t] /\ error_events'[t] # << >>)
                => (tpc[t] = "new" /\ tpc'[t] = "failed")
             /\ (error_events[t] # << >> /\ tpc'[t] # "new") => emitted'[t] = << >>
             /\ (emitted[t] # << >> /\ tpc'[t] # "new") => error_events'[t] = << >>]_vars

\* a HID worker whose device did not open has emitted its one input/error and
\* exited, its handle installed
C8_Witness ==
    \E t \in WorkerIds :
        /\ tpc[t] = "failed"
        /\ error_events[t] = <<ErrHidOpen>>
        /\ worker = Handle(t)

\* C9 as claimed: the holder of the mutex never waits on the worker thread, so
\* no call waits for the mutex while a tick of the joined worker is under way.
C9_MutexNotHeldAcrossJoin ==
    \A p \in Callers :
        (mutex = p /\ cpc[p] = "stop_join" /\ Ticking(thread_of(chandle[p])))
        => \A q \in Callers : cpc[q] \notin {"start_lock", "stop_lock"}

\* a report that Ps4HidNativeSource::poll does not decode: nothing read,
\* fewer than 10 bytes, or a first byte other than 0x01
Undecoded(report) == Len(report) = 0 \/ Len(report) < 10 \/ report[1] # 1

\* C10: a HID poll that reads nothing, a short report or a report with another
\* id leaves the remembered direction and mask as they were and returns
\* exactly them; a valid report replaces them by what it decodes to.
C10_HidKeepsState ==
    [][\A t \in WorkerIds :
          (tpc[t] = "poll" /\ tpc'[t] = "emit" /\ source[t].kind = "hid"
              /\ poll_result'[t].ok)
          => IF Undecoded(poll_result'[t].read)
             THEN /\ source'[t] = source[t]
                  /\ sample'[t] = InputSample(source[t].direction, source[t].down_mask)
             ELSE /\ source'[t].direction = decode_gp2040_ps4_report(poll_result'[t].read).direction
                  /\ source'[t].down_mask = decode_gp2040_ps4_report(poll_result'[t].read).down_mask
                  /\ sample'[t] = InputSample(source'[t].direction, source'[t].down_mask)]_vars

\* a HID worker that remembers direction 6 has read a report with another id
\* and its sample still carries direction 6 and the remembered mask
C10_Witness ==
    \E t \in WorkerIds :
        /\ tpc[t] = "emit"
        /\ source[t].kind = "hid"
        /\ poll_result[t].ok
        /\ Len(poll_result[t].read) = 10 /\ poll_result[t].read[1] # 1
        /\ sample[t].direction = 6
        /\ sample[t].down_mask = source[t].down_mask /\ sample[t].down_mask # 0

\* a call of fn has returned
Returned(fn) == call.fn = fn /\ call.done

\* a report decode_gp2040_ps4_report decodes: 10 bytes or more, report id 0x01
ValidReport(report) == Len(report) >= 10 /\ report[1] = 1

\* the hat nibble: the low 4 bits of byte 5 of the report
HatNibble(report) == report[6] % 16

\* C11: for every valid HID report with a hat nibble in 0..7 the decoded
\* direction is the hat's lookup value (0->8, 1->9, 2->6, 3->3, 4->2, 5->1,
\* 6->4, 7->7) whatever the stick bytes; with the hat centered (8 or above)
\* the direction is the one the stick bytes give.
C11_HatPriority ==
    (Returned("decode_gp2040_ps4_report") /\ ValidReport(call.args[1]))
    => LET report == call.args[1]
           hat == HatNibble(report)
       IN  /\ call.result.some
           /\ IF hat \in 0..7
              THEN call.result.direction = <<8, 9, 6, 3, 2, 1, 4, 7>>[hat + 1]
              ELSE call.result.direction
                      = direction_from_analog_stick(report[2], report[3])

\* a report with the hat to the right and the stick fully to the left has
\* been decoded to direction 6
C11_Witness ==
    /\ Returned("decode_gp2040_ps4_report")
    /\ ValidReport(call.args[1])
    /\ HatNibble(call.args[1]) = 2
    /\ call.args[1][2] = 0
    /\ call.result.direction = 6

\* C12: to_direction(h, v) is the keypad table on the nine pairs of -1..1.
C12_KeypadTable ==
    Returned("to_direction")
    => <<call.args[1], call.args[2], call.result>>
          \in { <<0, 0, 5>>, <<1, 0, 6>>, <<-1, 0, 4>>, <<0, 1, 8>>, <<0, -1, 2>>,
                <<1, 1, 9>>, <<-1, 1, 7>>, <<1, -1, 3>>, <<-1, -1, 1>> }

\* to_direction(-1, -1) has returned 1
C12_Witness ==
    /\ Returned("to_direction")
    /\ call.args = <<-1, -1>>
    /\ call.result = 1

\* C14: in XInput decoding the L2 bit is set iff the left trigger byte is 140
\* or more, the R2 bit iff the right trigger byte is, and the triggers change
\* no other bit of the mask.
C14_TriggerThreshold ==
    Returned("sample_from_xinput_state")
    => LET gamepad == call.args[1]
           mask == call.result.down_mask
           released == sample_from_xinput_state(
                          [gamepad EXCEPT !.bLeftTrigger = 0, !.bRightTrigger = 0]).down_mask
       IN  /\ (BitAnd(mask, BUTTON_L2_MASK) # 0) <=> (gamepad.bLeftTrigger >= 140)
           /\ (BitAnd(mask, BUTTON_R2_MASK) # 0) <=> (gamepad.bRightTrigger >= 140)
           /\ mask = released
                     + (IF gamepad.bLeftTrigger >= 140 THEN BUTTON_L2_MASK ELSE 0)
                     + (IF gamepad.bRightTrigger >= 140 THEN BUTTON_R2_MASK ELSE 0)

\* a state with the left trigger at 139 and the right one at 140 has been
\* decoded: R2 is down and L2 is not
C14_Witness ==
    /\ Returned("sample_from_xinput_state")
    /\ call.args[1].bLeftTrigger = 139
    /\ call.args[1].bRightTrigger = 140
    /\ BitAnd(call.result.down_mask, BUTTON_R2_MASK) # 0
    /\ BitAnd(call.result.down_mask, BUTTON_L2_MASK) = 0

\* the vocabulary of `down` as the claim gives it
C15_Vocabulary == <<"LP", "MP", "HP", "LK", "MK", "HK", "DI", "Parry">>

\* the names of C15_Vocabulary whose bit (0..7) is set in mask, in order
C15_Down(mask) ==
    LET names[i \in 0..8] ==
            IF i = 8 THEN << >>
            ELSE (IF (mask \div Shl1(i)) % 2 = 1 THEN <<C15_Vocabulary[i + 1]>> ELSE << >>)
                 \o names[i + 1]
    IN  names[0]

\* C15 as claimed: for every 16-bit mask the down list holds, in order, the
\* names LP, MP, HP, LK, MK, HK, DI, Parry whose bit 0..7 is set, and nothing
\* for the bits 8..15.
C15_DownNames ==
    Returned("mask_to_buttons") => call.result = C15_Down(call.args[1])

\* the order in which a poll that remembers slot is to query the slots
SlotOrder(slot) == <<slot>> \o SelectSeq(<<0, 1, 2, 3>>, LAMBDA user_index : user_index # slot)

\* C19: an XInput poll queries the remembered slot and then 0, 1, 2, 3 without
\* it, each once, up to the first slot that is not "not connected"; if that
\* slot read successfully the poll returns its decoded state and remembers
\* it, if it failed the poll is an Err and remembers what it did; if no slot
\* is connected the poll returns neutral, all four queried.  The remembered
\* slot stays in 0..3.
C19_SlotScan ==
    Returned("XInputPrimarySource_poll")
    => LET before == call.args[1]
           rets == call.args[2]
           gamepad == call.args[3]
           order == SlotOrder(before.preferred_user_index)
           answering == {k \in 1..4 : rets[order[k]] # ERROR_DEVICE_NOT_CONNECTED}
           first == CHOOSE k \in answering : \A j \in answering : k <= j
       IN  /\ call.result.source.preferred_user_index \in 0..3
           /\ IF answering = {}
              THEN /\ call.result.ok
                   /\ call.result.sample = InputSample(5, 0)
                   /\ call.result.queried = order
                   /\ call.result.source = before
              ELSE /\ call.result.queried = SubSeq(order, 1, first)
                   /\ IF rets[order[first]] = 0
                      THEN /\ call.result.ok
                           /\ call.result.sample = sample_from_xinput_state(gamepad)
                           /\ call.result.source.preferred_user_index = order[first]
                      ELSE /\ ~call.result.ok
                           /\ call.result.source = before

\* a poll that remembered slot 2 found slots 2 and 0 not connected, read slot 1
\* and now remembers slot 1
C19_Witness ==
    /\ Returned("XInputPrimarySource_poll")
    /\ call.args[1].preferred_user_index = 2
    /\ call.result.queried = <<2, 0, 1>>
    /\ call.result.ok
    /\ call.result.source.preferred_user_index = 1

\* to_direction's arguments as the D-pad flags of a hat give them
HatHorizontal(hat) == IF hat_dpad_right(hat) THEN 1 ELSE IF hat_dpad_left(hat) THEN -1 ELSE 0
HatVertical(hat) == IF hat_dpad_up(hat) THEN 1 ELSE IF hat_dpad_down(hat) THEN -1 ELSE 0

\* C20: for every hat value 0..7 the direction of the hat lookup, and so the
\* direction decoded from a valid report with that hat, is to_direction(h, v)
\* of the D-pad flags the decoder derives from the same hat.
C20_HatAgreesWithEncoder ==
    /\ (Returned("direction_from_ds4_hat") /\ call.args[1] \in 0..7)
       => call.result = to_direction(HatHorizontal(call.args[1]), HatVertical(call.args[1]))
    /\ (Returned("decode_gp2040_ps4_report") /\ ValidReport(call.args[1])
           /\ HatNibble(call.args[1]) \in 0..7)
       => call.result.direction
             = to_direction(HatHorizontal(HatNibble(call.args[1])),
                            HatVertical(HatNibble(call.args[1])))

\* the hat lookup has returned 1 for hat 5, whose flags are down and left
C20_Witness ==
    /\ Returned("direction_from_ds4_hat")
    /\ call.args = <<5>>
    /\ hat_dpad_down(5) /\ hat_dpad_left(5)
    /\ call.result = 1

\* C13: the direction of every sample a poll has returned, of every frame
\* emitted and of what a HID source remembers is one of the codes 1..9.
C13_DirectionCodes ==
    \A t \in WorkerIds :
        /\ tpc[t] \in {"emit", "sleep"} => sample[t].direction \in 1..9
        /\ tpc[t] = "sleep" => payload[t].direction \in 1..9
        /\ source[t].kind = "hid" => source[t].direction \in 1..9

\* a HID worker that remembers direction 1 (hat 5) has emitted, in its second
\* tick, the neutral frame of a read that failed
C13_Witness ==
    \E t \in WorkerIds :
        /\ tpc[t] = "sleep"
        /\ source[t].kind = "hid" /\ source[t].direction = 1
        /\ ~poll_result[t].ok
        /\ payload[t].frame = 1 /\ payload[t].direction = 5

\* C16 as claimed: when the InputRuntimeState is dropped with a worker
\* installed and input_stop not called, the stop flag of that worker is set.
C16_DropSetsStopFlag ==
    \A t \in WorkerIds : state_dropped = <<Handle(t)>> => stop_flag[t]

\* C17: a stop flag, once set, stays set; from the moment input_stop sets it
\* the worker emits at most one more frame; and, the threads being scheduled
\* fairly, the worker exits and the joining input_stop returns.
C17_BoundedCancellation ==
    /\ [](\A p \in Callers :
             cpc[p] = "stop_join"
             => /\ stop_flag[thread_of(chandle[p])]
                /\ Len(emitted[thread_of(chandle[p])]) <= frames_at_stop[p] + 1)
    /\ [][/\ \A t \in WorkerIds :
                /\ (stop_flag[t] /\ tpc'[t] # "new") => stop_flag'[t]
                /\ (stop_flag[t] /\ tpc[t] = "loop" /\ tpc'[t] # "loop")
                   => tpc'[t] = "done"
          /\ \A p \in Callers :
                (cpc[p] = "stop_join" /\ cpc'[p] = "idle")
                => Exited(thread_of(chandle[p]))]_vars
    /\ \A p \in StopCallers : (cpc[p] = "stop_join") ~> (cpc[p] = "idle")

\* input_stop set the flag in the middle of a tick; the worker has emitted
\* the frame of that tick, has exited, and the join is about to return
C17_Witness ==
    \E p \in Callers :
        /\ cpc[p] = "stop_join"
        /\ tpc[thread_of(chandle[p])] = "done"
        /\ Len(emitted[thread_of(chandle[p])]) = frames_at_stop[p] + 1

\* C18: a tick emits exactly one frame, numbered after the one before it,
\* whatever the time its work took; the worker sleeps the rest of the frame
\* period if the work took less than the period and does not sleep otherwise,
\* so that the tick lasts the longer of the two.
C18_TickTiming ==
    [][\A t \in WorkerIds :
          /\ (tpc[t] = "sleep" /\ tpc'[t] = "loop")
             => LET elapsed == tick_time'[t].elapsed
                    slept == tick_time'[t].slept
                IN  /\ slept = (IF elapsed < 16666667 THEN 16666667 - elapsed ELSE 0)
                    /\ elapsed + slept = (IF elapsed > 16666667 THEN elapsed ELSE 16666667)
                    /\ emitted'[t] = emitted[t]
                    /\ frame_index'[t] = frame_index[t]
          /\ (tpc[t] = "loop" /\ tpc'[t] = "poll")
             => /\ Len(emitted[t]) = frame_index[t]
                /\ emitted'[t] = emitted[t]
          /\ (tpc[t] = "poll" /\ tpc'[t] = "emit") => emitted'[t] = emitted[t]
          /\ (tpc[t] = "emit" /\ tpc'[t] = "sleep")
             => emitted'[t] = Append(emitted[t], Len(emitted[t]))]_vars

\* the second tick of a worker took longer than the frame period: the worker
\* did not sleep and has emitted frames 0 and 1, no more
C18_Witness ==
    \E t \in WorkerIds :
        /\ tpc[t] = "loop"
        /\ tick_time[t].elapsed > FRAME_DURATION
        /\ tick_time[t].slept = 0
        /\ emitted[t] = <<0, 1>>

\* C21 as claimed: whenever the runtime state holds a handle and no input_stop
\* is in progress, the thread of that worker is alive, that is, it has not
\* returned from its closure and goes on to emit frames.
C21_InstalledWorkerAlive ==
    \A t \in WorkerIds :
        (worker = Handle(t) /\ \A p \in Callers : cpc[p] \notin StopPcs) => Alive(t)

====
